---------------------------- MODULE Spec2Model ----------------------------
(* Model of the sales dashboard of src/src/App.jsx: the vote tally        *)
(* (auth listener, vote-count listener, handleVote) running in several    *)
(* browser sessions against one Firestore, and the filter / aggregation   *)
(* pipeline over the parsed CSV rows.                                     *)
EXTENDS Integers, Sequences, FiniteSets, TLC

(* ---------------------------------------------------------------------- *)
(* Bounds of the model                                                    *)
(* ---------------------------------------------------------------------- *)
\* rows of the parsed CSV file
MaxRows == 2
\* handleVote calls started in one run (all viewers together)
MaxCalls == 2
\* auth-state changes delivered in one run (all viewers together)
MaxAuthChanges == 2
\* rejected Firestore promises in one run
MaxFailures == 1

\* browser sessions (mounted App components) and Google identities
Viewers == {"v1", "v2"}
Uids == {"u1", "u2"}
VoteTypes == {"support", "against"}
\* JavaScript null
Null == "null"

VARIABLES
  user,        \* user[v]: useState(null), the signed-in uid or Null
  userVote,    \* userVote[v]: useState(null), Null / "support" / "against"
  votes,       \* votes[v]: useState({support: 0, against: 0})
  authReads,   \* authReads[v]: uids whose userVotes getDoc (line 82) is pending
  calls,       \* every handleVote call started so far, with its position
  userVotes,   \* Firestore collection userVotes: uid -> vote or Null (no doc)
  votesDoc,    \* Firestore document votes/salesData: [exists, data]
  snapDue,     \* snapDue[v]: the listener of v has a snapshot of votes/salesData to come
  authChanges, \* auth-state changes delivered so far
  failures,    \* promises rejected so far
  data,        \* useState([]): the retained CSV rows
  loading,     \* useState(true)
  selectedType,     \* useState('ALL')
  selectedYear,     \* useState('ALL')
  selectedSupplier  \* useState('ALL')

voteVars == <<user, userVote, votes, authReads, calls, userVotes, votesDoc,
              snapDue, authChanges, failures>>

dataVars == <<data, loading, selectedType, selectedYear, selectedSupplier>>

vars == <<voteVars, dataVars>>

(* ---------------------------------------------------------------------- *)
(* JavaScript strings and numbers                                         *)
(* A CSV value is a string, modelled as a sequence of characters, or      *)
(* undefined (the row has no such field).                                 *)
(* ---------------------------------------------------------------------- *)
Undefined == <<"undefined">>

\* the characters of the model, in code-unit order
CharOrder == <<" ", "-", "0", "1", "2", "3", "4", "5", "6", "7", "8", "9",
               "A", "B", "C", "D", "E", "F", "G", "H", "I", "J", "K", "L", "M",
               "N", "O", "P", "Q", "R", "S", "T", "U", "V", "W", "X", "Y", "Z">>
CharCode(ch) == CHOOSE i \in DOMAIN CharOrder : CharOrder[i] = ch
Digits == {"0", "1", "2", "3", "4", "5", "6", "7", "8", "9"}
DigitValue(ch) == CharCode(ch) - CharCode("0")

\* a value used as a condition: undefined and '' are falsy
Truthy(s) == s # Undefined /\ s # <<>>

\* a.localeCompare(b) < 0
RECURSIVE StrLess(_, _)
StrLess(a, b) ==
  IF b = <<>> THEN FALSE
  ELSE IF a = <<>> THEN TRUE
  ELSE IF Head(a) # Head(b) THEN CharCode(Head(a)) < CharCode(Head(b))
  ELSE StrLess(Tail(a), Tail(b))

\* s.padStart(n, ch)
RECURSIVE PadStart(_, _, _)
PadStart(s, n, ch) == IF Len(s) >= n THEN s ELSE PadStart(<<ch>> \o s, n, ch)

\* a JavaScript number: NaN or a whole number
NaN == [nan |-> TRUE, val |-> 0]
Num(n) == [nan |-> FALSE, val |-> n]
\* a + b
JsAdd(a, b) == IF a.nan \/ b.nan THEN NaN ELSE Num(a.val + b.val)
\* !a on a number or undefined: 0 and NaN are falsy
JsNot(defined, a) == ~defined \/ a.nan \/ a.val = 0

\* the value of the longest prefix of digits of s, from acc
RECURSIVE DigitRun(_, _)
DigitRun(s, acc) ==
  IF s = <<>> \/ Head(s) \notin Digits THEN acc
  ELSE DigitRun(Tail(s), 10 * acc + DigitValue(Head(s)))

RECURSIVE TrimStart(_)
TrimStart(s) == IF s # <<>> /\ Head(s) = " " THEN TrimStart(Tail(s)) ELSE s

\* parseFloat(s) and parseInt(s) of a string without '.', 'e' or a radix
\* prefix: leading blanks, a sign, then the longest run of digits
ParseNumber(s) ==
  LET t == TrimStart(s)
      neg == t # <<>> /\ Head(t) = "-"
      u == IF neg THEN Tail(t) ELSE t
  IN IF u = <<>> \/ Head(u) \notin Digits THEN NaN
     ELSE Num(IF neg THEN 0 - DigitRun(u, 0) ELSE DigitRun(u, 0))

\* parseFloat(x || 0): parseFloat(0) is 0
ParseSales(x) == IF Truthy(x) THEN ParseNumber(x) ELSE Num(0)

(* ---------------------------------------------------------------------- *)
(* The CSV rows                                                           *)
(* ---------------------------------------------------------------------- *)
ALL == <<"A", "L", "L">>
BEER == <<"B", "E", "E", "R">>
WINE == <<"W", "I", "N", "E">>
LIQUOR == <<"L", "I", "Q", "U", "O", "R">>
KEGS == <<"K", "E", "G", "S">>
NON_ALCOHOL == <<"N", "O", "N", "-", "A", "L", "C", "O", "H", "O", "L">>
ITEM_TYPES == <<BEER, WINE, LIQUOR, KEGS, NON_ALCOHOL>>
MONTHS == <<"Jan", "Feb", "Mar", "Apr", "May", "Jun", "Jul", "Aug", "Sep",
            "Oct", "Nov", "Dec">>
Includes(seq, x) == \E i \in DOMAIN seq : seq[i] = x

\* rows Papa.parse may hand to the complete callback
SODA == <<"S", "O", "D", "A">>
SampleYears == {<<"2", "0", "1", "9">>, <<"2", "0", "2", "0">>}
SampleSuppliers == {<<"A">>, <<"B">>}
Row(y, m, t, s, r, w) ==
  [YEAR |-> y, MONTH |-> m, ITEM_TYPE |-> t, SUPPLIER |-> s,
   RETAIL_SALES |-> r, WAREHOUSE_SALES |-> w]
\* every type, year and supplier combination; supplier B's retail sales are
\* not a number and the rows of 2020 have no warehouse sales
RawRows ==
  {Row(y, <<"3">>, t, s,
       IF s = <<"A">> THEN <<"1", "0">> ELSE <<"X">>,
       IF y = <<"2", "0", "1", "9">> THEN <<"5">> ELSE Undefined) :
     y \in SampleYears, t \in {BEER, WINE}, s \in SampleSuppliers}
  \cup {Row(<<"2", "0", "2", "0">>, <<"3">>, SODA, <<"A">>, <<"1", "0">>, <<"5">>),
        Row(<<"2", "0", "1", "9">>, <<"1", "2">>, WINE, <<"B">>, <<"7", "X">>, <<>>),
        Row(<<>>, Undefined, Undefined, Undefined, Undefined, Undefined)}
RawFiles == UNION {[1..n -> RawRows] : n \in 0..MaxRows}

(* ---------------------------------------------------------------------- *)
(* Loading, filtering and aggregating                                     *)
(* ---------------------------------------------------------------------- *)
\* the filter of the complete callback (lines 63-65)
RowIsClean(row) ==
  /\ Truthy(row.YEAR)
  /\ Truthy(row.MONTH)
  /\ Truthy(row.ITEM_TYPE)
  /\ Includes(ITEM_TYPES, row.ITEM_TYPE)

CleanData(rows) == SelectSeq(rows, RowIsClean)

\* the strings of set S in ascending order (sort, localeCompare)
RECURSIVE SortStrings(_)
SortStrings(S) ==
  IF S = {} THEN <<>>
  ELSE LET least == CHOOSE x \in S : \A y \in S \ {x} : StrLess(x, y)
       IN <<least>> \o SortStrings(S \ {least})

Range(seq) == {seq[i] : i \in DOMAIN seq}

\* the options of the year select
years == SortStrings(Range([i \in DOMAIN data |-> data[i].YEAR]))

\* the options of the supplier select: at most SupplierLimit of them
SupplierLimit == 50
suppliers ==
  LET sorted == SortStrings({x \in Range([i \in DOMAIN data |-> data[i].SUPPLIER]) :
                               Truthy(x)})
  IN SubSeq(sorted, 1, IF Len(sorted) < SupplierLimit THEN Len(sorted)
                       ELSE SupplierLimit)

\* faulty variant, for sensitivity of the property: the supplier facet is not applied
RowPassesNoSupplier(row, type, year, supplier) ==
  IF type # ALL /\ row.ITEM_TYPE # type THEN FALSE
  ELSE IF year # ALL /\ row.YEAR # year THEN FALSE
  ELSE TRUE

\* the callback of data.filter (lines 164-169)
RowPasses(row, type, year, supplier) ==
  IF type # ALL /\ row.ITEM_TYPE # type THEN FALSE
  ELSE IF year # ALL /\ row.YEAR # year THEN FALSE
  ELSE IF supplier # ALL /\ row.SUPPLIER # supplier THEN FALSE
  ELSE TRUE

\* Array.prototype.filter keeps the passing rows in their order
RECURSIVE FilterRows(_, _, _, _)
FilterRows(rows, type, year, supplier) ==
  IF rows = <<>> THEN <<>>
  ELSE (IF RowPasses(Head(rows), type, year, supplier) THEN <<Head(rows)>> ELSE <<>>)
       \o FilterRows(Tail(rows), type, year, supplier)

filteredData == FilterRows(data, selectedType, selectedYear, selectedSupplier)

\* the key of a row's month bucket (line 177)
MonthKey(row) == row.YEAR \o <<"-">> \o PadStart(row.MONTH, 2, "0")

\* what a row adds to the retail and to the warehouse total (lines 181-182,
\* 221-222) and to its category (line 206)
RetailOf(row) == ParseSales(row.RETAIL_SALES)
WarehouseOf(row) == ParseSales(row.WAREHOUSE_SALES)

\* the forEach of lines 176-184: one pass, bucket by bucket
RECURSIVE MonthlyPass(_, _)
MonthlyPass(rows, aggregated) ==
  IF rows = <<>> THEN aggregated
  ELSE LET row == Head(rows)
           key == MonthKey(row)
           cur == IF key \in DOMAIN aggregated THEN aggregated[key]
                  ELSE [retail |-> Num(0), warehouse |-> Num(0), count |-> 0]
           new == [retail |-> JsAdd(cur.retail, RetailOf(row)),
                   warehouse |-> JsAdd(cur.warehouse, WarehouseOf(row)),
                   count |-> cur.count + 1]
       IN MonthlyPass(Tail(rows),
                      [k \in (DOMAIN aggregated) \cup {key} |->
                         IF k = key THEN new ELSE aggregated[k]])

\* key.split('-')
RECURSIVE Split(_, _)
Split(s, part) ==
  IF s = <<>> THEN <<part>>
  ELSE IF Head(s) = "-" THEN <<part>> \o Split(Tail(s), <<>>)
  ELSE Split(Tail(s), Append(part, Head(s)))

\* `${MONTHS[parseInt(month) - 1]} ${year}` (lines 189-190)
MonthLabel(key) ==
  LET parts == Split(key, <<>>)
      month == IF Len(parts) >= 2 THEN ParseNumber(parts[2]) ELSE NaN
  IN <<IF ~month.nan /\ month.val \in DOMAIN MONTHS THEN MONTHS[month.val]
       ELSE "undefined", parts[1]>>

monthlyData ==
  LET aggregated == MonthlyPass(filteredData, [k \in {} |-> 0])
      sorted == SortStrings(DOMAIN aggregated)
  IN [labels |-> [i \in DOMAIN sorted |-> MonthLabel(sorted[i])],
      retail |-> [i \in DOMAIN sorted |-> aggregated[sorted[i]].retail],
      warehouse |-> [i \in DOMAIN sorted |-> aggregated[sorted[i]].warehouse]]

\* the forEach of lines 201-207: labels in first-seen order; a total that is
\* undefined, 0 or NaN is set to 0 before the row is added (line 203)
RECURSIVE TypePass(_, _, _)
TypePass(rows, labels, aggregated) ==
  IF rows = <<>> THEN [labels |-> labels,
                       values |-> [i \in DOMAIN labels |-> aggregated[labels[i]]]]
  ELSE LET row == Head(rows)
           type == row.ITEM_TYPE
           defined == type \in DOMAIN aggregated
           cur == IF JsNot(defined, IF defined THEN aggregated[type] ELSE NaN)
                  THEN Num(0) ELSE aggregated[type]
           new == JsAdd(cur, JsAdd(RetailOf(row), WarehouseOf(row)))
       IN TypePass(Tail(rows),
                   IF defined THEN labels ELSE Append(labels, type),
                   [k \in (DOMAIN aggregated) \cup {type} |->
                      IF k = type THEN new ELSE aggregated[k]])

typeData == TypePass(filteredData, <<>>, [k \in {} |-> 0])

\* the forEach of lines 220-223
RECURSIVE StatsPass(_, _, _)
StatsPass(rows, totalRetail, totalWarehouse) ==
  IF rows = <<>> THEN [totalRetail |-> totalRetail, totalWarehouse |-> totalWarehouse]
  ELSE StatsPass(Tail(rows), JsAdd(totalRetail, RetailOf(Head(rows))),
                 JsAdd(totalWarehouse, WarehouseOf(Head(rows))))

\* the decimal digits of n >= 0
RECURSIVE DigitsOf(_)
DigitsOf(n) ==
  IF n < 10 THEN <<CharOrder[CharCode("0") + n]>>
  ELSE DigitsOf(n \div 10) \o <<CharOrder[CharCode("0") + (n % 10)]>>

RECURSIVE Grouped(_)
Grouped(n) ==
  IF n < 1000 THEN DigitsOf(n)
  ELSE Grouped(n \div 1000) \o <<",">> \o PadStart(DigitsOf(n % 1000), 3, "0")

\* x.toLocaleString('en-US', {maximumFractionDigits: 0}) of NaN or a whole number
ToLocaleString(x) ==
  IF x.nan THEN <<"N", "a", "N">>
  ELSE IF x.val < 0 THEN <<"-">> \o Grouped(0 - x.val)
  ELSE Grouped(x.val)

\* the totals of lines 217-223, before they are formatted
statsTotals == StatsPass(filteredData, Num(0), Num(0))

\* totalRetail + totalWarehouse (line 229), before it is formatted
grandTotal == JsAdd(statsTotals.totalRetail, statsTotals.totalWarehouse)

stats ==
  [totalRecords |-> Len(filteredData),
   totalRetail |-> ToLocaleString(statsTotals.totalRetail),
   totalWarehouse |-> ToLocaleString(statsTotals.totalWarehouse),
   totalSales |-> ToLocaleString(grandTotal)]

(* ---------------------------------------------------------------------- *)
(* The dashboard's actions: the CSV load and the three selects            *)
(* ---------------------------------------------------------------------- *)
DataStart ==
  /\ data = <<>>
  /\ loading = TRUE
  /\ selectedType = ALL
  /\ selectedYear = ALL
  /\ selectedSupplier = ALL

\* Papa.parse complete callback (lines 62-68)
ParseComplete(results) ==
  /\ loading
  /\ data' = CleanData(results)
  /\ loading' = FALSE
  /\ UNCHANGED <<voteVars, selectedType, selectedYear, selectedSupplier>>

\* Papa.parse error callback (lines 69-72)
ParseError ==
  /\ loading
  /\ loading' = FALSE
  /\ UNCHANGED <<voteVars, data, selectedType, selectedYear, selectedSupplier>>

\* the selects are rendered once loading is false (line 340)
SetSelectedType(type) ==
  /\ ~loading
  /\ type \in {ALL} \cup Range(ITEM_TYPES)
  /\ type # selectedType
  /\ selectedType' = type
  /\ UNCHANGED <<voteVars, data, loading, selectedYear, selectedSupplier>>

SetSelectedYear(year) ==
  /\ ~loading
  /\ year \in {ALL} \cup Range(years)
  /\ year # selectedYear
  /\ selectedYear' = year
  /\ UNCHANGED <<voteVars, data, loading, selectedType, selectedSupplier>>

SetSelectedSupplier(supplier) ==
  /\ ~loading
  /\ supplier \in {ALL} \cup Range(suppliers)
  /\ supplier # selectedSupplier
  /\ selectedSupplier' = supplier
  /\ UNCHANGED <<voteVars, data, loading, selectedType, selectedYear>>

(* ---------------------------------------------------------------------- *)
(* Firestore document operations                                          *)
(* ---------------------------------------------------------------------- *)
NoData == [f \in {} |-> 0]
MissingDoc == [exists |-> FALSE, data |-> NoData]

\* setDoc(voteRef, {[voteType]: increment(1)}, {merge: true}): the store adds
\* 1 to the field (a missing field counts as 0) and keeps the other fields.
MergeIncrement(d, voteType) ==
  [exists |-> TRUE,
   data |-> [f \in (DOMAIN d.data) \cup {voteType} |->
               IF f = voteType
                 THEN (IF f \in DOMAIN d.data THEN d.data[f] + 1 ELSE 1)
                 ELSE d.data[f]]]

\* setDoc(voteRef, {support: ..., against: ...}): the document is replaced.
CreateCounter(voteType) ==
  [exists |-> TRUE,
   data |-> [support |-> IF voteType = "support" THEN 1 ELSE 0,
             against |-> IF voteType = "against" THEN 1 ELSE 0]]

\* a committed write of votes/salesData: every listener has a snapshot to come
Publish == [v \in Viewers |-> TRUE]

(* ---------------------------------------------------------------------- *)
(* Initial state: every App mounted, nobody signed in, no vote recorded,   *)
(* votes/salesData not yet created (only handleVote creates it)           *)
(* ---------------------------------------------------------------------- *)
Init ==
  /\ user = [v \in Viewers |-> Null]
  /\ userVote = [v \in Viewers |-> Null]
  /\ votes = [v \in Viewers |-> [support |-> 0, against |-> 0]]
  /\ authReads = [v \in Viewers |-> {}]
  /\ calls = <<>>
  /\ userVotes = [u \in Uids |-> Null]
  /\ votesDoc = MissingDoc
  /\ snapDue = [v \in Viewers |-> TRUE]
  /\ authChanges = 0
  /\ failures = 0
  /\ DataStart

(* ---------------------------------------------------------------------- *)
(* Auth state listener (onAuthStateChanged callback)                      *)
(* ---------------------------------------------------------------------- *)
\* the callback with a user: the sign-in button is rendered only while user is
\* null (lines 364-373)
AuthSignedIn(v, u) ==
  /\ authChanges < MaxAuthChanges
  /\ user[v] = Null
  /\ user' = [user EXCEPT ![v] = u]
  /\ authReads' = [authReads EXCEPT ![v] = @ \cup {u}]
  /\ authChanges' = authChanges + 1
  /\ UNCHANGED <<dataVars, userVote, votes, calls, userVotes, votesDoc, snapDue, failures>>

\* the callback with null
AuthSignedOut(v) ==
  /\ authChanges < MaxAuthChanges
  /\ user[v] # Null
  /\ user' = [user EXCEPT ![v] = Null]
  /\ userVote' = [userVote EXCEPT ![v] = Null]
  /\ authChanges' = authChanges + 1
  /\ UNCHANGED <<dataVars, votes, authReads, calls, userVotes, votesDoc, snapDue, failures>>

\* the getDoc of line 82 resolves: .then((docSnap) => ...)
VoteRecordResult(exists, recorded, current) ==
  IF exists THEN recorded ELSE current

VoteRecordRead(v, u) ==
  /\ u \in authReads[v]
  /\ authReads' = [authReads EXCEPT ![v] = @ \ {u}]
  /\ userVote' = [userVote EXCEPT
                    ![v] = VoteRecordResult(userVotes[u] # Null, userVotes[u], @)]
  /\ UNCHANGED <<dataVars, user, votes, calls, userVotes, votesDoc, snapDue, authChanges, failures>>

(* ---------------------------------------------------------------------- *)
(* Vote-count listener (onSnapshot callback)                              *)
(* ---------------------------------------------------------------------- *)
\* faulty variant, for sensitivity of the property: the listener never calls setVotes
SnapshotResultIgnored(snap, current) == current

SnapshotResult(snap, current) ==
  IF snap.exists THEN snap.data ELSE current

SnapshotDelivered(v) ==
  /\ snapDue[v]
  /\ votes' = [votes EXCEPT ![v] = SnapshotResult(votesDoc, @)]
  /\ snapDue' = [snapDue EXCEPT ![v] = FALSE]
  /\ UNCHANGED <<dataVars, user, userVote, authReads, calls, userVotes, votesDoc,
                 authChanges, failures>>

(* ---------------------------------------------------------------------- *)
(* handleVote                                                             *)
(* ---------------------------------------------------------------------- *)
\* line 121: if (!user || userVote) return;
VoteGuard(v) == user[v] # Null /\ userVote[v] = Null

\* a click on a vote button: the guard, then setDoc(userVotes/uid) is issued
HandleVote(v, voteType) ==
  /\ Len(calls) < MaxCalls
  /\ VoteGuard(v)
  /\ calls' = Append(calls, [viewer |-> v, uid |-> user[v], vote |-> voteType,
                             pc |-> "setRecord", wrote |-> FALSE,
                             voteSnap |-> "unread"])
  /\ UNCHANGED <<dataVars, user, userVote, votes, authReads, userVotes, votesDoc, snapDue,
                 authChanges, failures>>

\* line 125 resolves: the vote record is written, then getDoc(voteRef) is issued
RecordWritten(c) ==
  /\ c \in DOMAIN calls
  /\ calls[c].pc = "setRecord"
  /\ userVotes' = [userVotes EXCEPT ![calls[c].uid] = calls[c].vote]
  /\ calls' = [calls EXCEPT ![c].pc = "getCounter", ![c].wrote = TRUE]
  /\ UNCHANGED <<dataVars, user, userVote, votes, authReads, votesDoc, snapDue,
                 authChanges, failures>>

\* faulty variant, for sensitivity of the property: the two branches of line 134 exchanged
CounterBranchSwapped(exists) == IF exists THEN "create" ELSE "increment"

\* line 134: the branch taken on the snapshot read at line 132
CounterBranch(exists) == IF exists THEN "increment" ELSE "create"
SnapOf(exists) == IF exists THEN "exists" ELSE "missing"

\* line 132 resolves: the counter is read, then one of the two setDoc is issued
CounterRead(c) ==
  /\ c \in DOMAIN calls
  /\ calls[c].pc = "getCounter"
  /\ calls' = [calls EXCEPT ![c].pc = CounterBranch(votesDoc.exists),
                           ![c].voteSnap = SnapOf(votesDoc.exists)]
  /\ UNCHANGED <<dataVars, user, userVote, votes, authReads, userVotes, votesDoc, snapDue,
                 authChanges, failures>>

\* line 145: setUserVote(voteType)
VoteShown(voteType) == voteType

\* lines 135-137 resolve, then line 145
CounterIncremented(c) ==
  /\ c \in DOMAIN calls
  /\ calls[c].pc = "increment"
  /\ votesDoc' = MergeIncrement(votesDoc, calls[c].vote)
  /\ snapDue' = Publish
  /\ userVote' = [userVote EXCEPT ![calls[c].viewer] = VoteShown(calls[c].vote)]
  /\ calls' = [calls EXCEPT ![c].pc = "done"]
  /\ UNCHANGED <<dataVars, user, votes, authReads, userVotes, authChanges, failures>>

\* lines 139-142 resolve, then line 145
CounterCreated(c) ==
  /\ c \in DOMAIN calls
  /\ calls[c].pc = "create"
  /\ votesDoc' = CreateCounter(calls[c].vote)
  /\ snapDue' = Publish
  /\ userVote' = [userVote EXCEPT ![calls[c].viewer] = VoteShown(calls[c].vote)]
  /\ calls' = [calls EXCEPT ![c].pc = "done"]
  /\ UNCHANGED <<dataVars, user, votes, authReads, userVotes, authChanges, failures>>

\* faulty variant, for sensitivity of the property: setUserVote moved to a finally block
AfterVoteErrorFinally(current, voteType) == voteType

\* lines 146-148: what the catch block leaves in userVote
AfterVoteError(current, voteType) == current

\* one of the awaited promises rejects: catch (error) { console.error(...) }
VoteFails(c) ==
  /\ failures < MaxFailures
  /\ c \in DOMAIN calls
  /\ calls[c].pc \in {"setRecord", "getCounter", "increment", "create"}
  /\ calls' = [calls EXCEPT ![c].pc = "error"]
  /\ userVote' = [userVote EXCEPT ![calls[c].viewer] = AfterVoteError(@, calls[c].vote)]
  /\ failures' = failures + 1
  /\ UNCHANGED <<dataVars, user, votes, authReads, userVotes, votesDoc, snapDue, authChanges>>

\* the vote tally without the display of the counter
VoteNext ==
  \/ \E v \in Viewers, u \in Uids : AuthSignedIn(v, u)
  \/ \E v \in Viewers : AuthSignedOut(v)
  \/ \E v \in Viewers, u \in Uids : VoteRecordRead(v, u)
  \/ \E v \in Viewers, t \in VoteTypes : HandleVote(v, t)
  \/ \E c \in 1..MaxCalls : RecordWritten(c)
  \/ \E c \in 1..MaxCalls : CounterRead(c)
  \/ \E c \in 1..MaxCalls : CounterIncremented(c)
  \/ \E c \in 1..MaxCalls : CounterCreated(c)
  \/ \E c \in 1..MaxCalls : VoteFails(c)

VoteSpec == Init /\ [][VoteNext]_vars

\* the vote tally with the vote-count listener of every viewer
Next ==
  \/ VoteNext
  \/ \E v \in Viewers : SnapshotDelivered(v)

Spec == Init /\ [][Next]_vars

\* the dashboard alone: nobody signs in or votes
DataNext ==
  \/ \E results \in RawFiles : ParseComplete(results)
  \/ ParseError
  \/ \E type \in Range(ITEM_TYPES) \cup {ALL} : SetSelectedType(type)
  \/ \E year \in SampleYears \cup {ALL} : SetSelectedYear(year)
  \/ \E supplier \in SampleSuppliers \cup {ALL} : SetSelectedSupplier(supplier)

DataSpec == Init /\ [][DataNext]_vars

\* the store delivers a due snapshot to every listener
Fairness == \A v \in Viewers : WF_vars(SnapshotDelivered(v))

LiveSpec == Init /\ [][Next]_vars /\ Fairness

(* ---------------------------------------------------------------------- *)
(* Properties                                                             *)
(* ---------------------------------------------------------------------- *)
CallsOf(cs, u) == {c \in DOMAIN cs : cs[c].uid = u}
\* counter writes committed for identity u
Increments(cs, u) == Cardinality({c \in CallsOf(cs, u) : cs[c].pc = "done"})
\* userVotes/u writes committed
RecordWrites(cs, u) == Cardinality({c \in CallsOf(cs, u) : cs[c].wrote})
InFlight(cs, u) ==
  \E c \in CallsOf(cs, u) : cs[c].pc \in {"setRecord", "getCounter", "increment", "create"}

\* C1: when two different identities have each completed handleVote('support'),
\* started against a counter showing support 0 and against 0, the stored
\* counter is support 2, against 0, whatever the interleaving was.
C1_NoVoteLost ==
  (/\ Len(calls) = 2
   /\ calls[1].uid # calls[2].uid
   /\ \A c \in DOMAIN calls : calls[c].vote = "support" /\ calls[c].pc = "done")
  => (votesDoc.exists /\ votesDoc.data = [support |-> 2, against |-> 0])

\* C2: the shared counter is incremented once per identity, however many
\* handleVote attempts that identity makes: the counter never holds more votes
\* than there are identities whose vote was counted.
C2_OneIncrementPerIdentity ==
  votesDoc.exists =>
    votesDoc.data["support"] + votesDoc.data["against"]
      <= Cardinality({u \in Uids : Increments(calls, u) >= 1})

\* C3: once a userVotes record exists for an identity, no step changes its
\* vote or writes it again.
C3_RecordIsFinal ==
  [][\A u \in Uids :
       userVotes[u] # Null =>
         /\ userVotes'[u] = userVotes[u]
         /\ RecordWrites(calls', u) = RecordWrites(calls, u)]_vars

C5_ShownVoteIsComplete ==
  \A v \in Viewers :
    (/\ user[v] # Null /\ userVote[v] # Null
     /\ userVotes[user[v]] # Null /\ ~InFlight(calls, user[v]))
    => Increments(calls, user[v]) >= 1

\* C6: a single vote of kind k cast while votes/salesData is missing leaves the
\* document with k at 1 and the other bucket at 0, and an increment is only
\* ever issued against a document that exists.
C6_FirstVoteCreatesCounter ==
  /\ (Len(calls) = 1 /\ calls[1].pc = "done" /\ calls[1].voteSnap = "missing") =>
       /\ votesDoc.exists
       /\ votesDoc.data = [f \in VoteTypes |-> IF f = calls[1].vote THEN 1 ELSE 0]
  /\ \A c \in DOMAIN calls :
       calls[c].pc = "increment" => (calls[c].voteSnap = "exists" /\ votesDoc.exists)

C6_Witness ==
  /\ Len(calls) = 1 /\ calls[1].pc = "done" /\ calls[1].voteSnap = "missing"
  /\ calls[1].vote = "support"
  /\ votesDoc.data = [support |-> 1, against |-> 0]

\* C7: whenever votes/salesData exists, every viewer's votes state eventually
\* equals the stored counter (under Fairness).
C7_VotesReachEveryViewer ==
  \A v \in Viewers : votesDoc.exists ~> (votesDoc.exists /\ votes[v] = votesDoc.data)

\* a viewer who never signed in or voted shows another viewer's vote
C7_Witness ==
  \E v \in Viewers :
    /\ user[v] = Null /\ authReads[v] = {}
    /\ \A c \in DOMAIN calls : calls[c].viewer # v
    /\ \E c \in DOMAIN calls : calls[c].pc = "done"
    /\ votesDoc.exists /\ votes[v] = votesDoc.data
    /\ votes[v] # [support |-> 0, against |-> 0]

\* the rows of data that match every facet of the selection that is not ALL
Matches(row, type, year, supplier) ==
  /\ type = ALL \/ row.ITEM_TYPE = type
  /\ year = ALL \/ row.YEAR = year
  /\ supplier = ALL \/ row.SUPPLIER = supplier
Pick(mask, facet, value) == IF facet \in mask THEN value ELSE ALL

\* C8: filteredData is the rows of data that match every non-ALL facet, in
\* their original order, and filtering on some facets and then on the others
\* gives the same rows as filtering once on all of them.
C8_FilterIsConjunction ==
  /\ LET kept == {i \in DOMAIN data :
                    Matches(data[i], selectedType, selectedYear, selectedSupplier)}
         nth(k) == CHOOSE i \in kept : Cardinality({j \in kept : j <= i}) = k
     IN /\ Len(filteredData) = Cardinality(kept)
        /\ \A k \in DOMAIN filteredData : filteredData[k] = data[nth(k)]
  /\ \A mask \in SUBSET {"type", "year", "supplier"} :
       LET rest == {"type", "year", "supplier"} \ mask
           first == FilterRows(data, Pick(mask, "type", selectedType),
                               Pick(mask, "year", selectedYear),
                               Pick(mask, "supplier", selectedSupplier))
       IN FilterRows(first, Pick(rest, "type", selectedType),
                     Pick(rest, "year", selectedYear),
                     Pick(rest, "supplier", selectedSupplier)) = filteredData

\* two facets are selected; a row is kept and a row is dropped
C8_Witness ==
  /\ selectedType # ALL /\ selectedSupplier # ALL
  /\ Len(filteredData) >= 1 /\ Len(filteredData) < Len(data)

RECURSIVE SumAll(_)
SumAll(seq) == IF seq = <<>> THEN Num(0) ELSE JsAdd(Head(seq), SumAll(Tail(seq)))

\* C9: the monthly buckets' retail + warehouse, summed, and the category
\* values, summed, both equal the summary's total retail + total warehouse.
C9_ReducersAgree ==
  /\ JsAdd(SumAll(monthlyData.retail), SumAll(monthlyData.warehouse)) = grandTotal
  /\ SumAll(typeData.values) = grandTotal

\* a sales field that is present and is a numeral
IsNumeral(x) ==
  /\ Truthy(x)
  /\ \A i \in DOMAIN x : x[i] \in Digits \/ (i = 1 /\ x[i] = "-" /\ Len(x) > 1)
Expected(x) == IF IsNumeral(x) THEN ParseNumber(x) ELSE Num(0)
ExpectedRetail == SumAll([i \in DOMAIN filteredData |-> Expected(filteredData[i].RETAIL_SALES)])
ExpectedWarehouse ==
  SumAll([i \in DOMAIN filteredData |-> Expected(filteredData[i].WAREHOUSE_SALES)])

\* C10: a retained row whose RETAIL SALES or WAREHOUSE SALES is missing or not
\* a numeral adds 0 for that field, so every total is the sum of the numeric
\* fields alone.
C10_BadSalesCountAsZero ==
  /\ \A i \in DOMAIN filteredData :
       /\ ~IsNumeral(filteredData[i].RETAIL_SALES) => RetailOf(filteredData[i]) = Num(0)
       /\ ~IsNumeral(filteredData[i].WAREHOUSE_SALES) =>
            WarehouseOf(filteredData[i]) = Num(0)
  /\ statsTotals.totalRetail = ExpectedRetail
  /\ statsTotals.totalWarehouse = ExpectedWarehouse
  /\ SumAll(monthlyData.retail) = ExpectedRetail
  /\ SumAll(monthlyData.warehouse) = ExpectedWarehouse
  /\ SumAll(typeData.values) = JsAdd(ExpectedRetail, ExpectedWarehouse)

(* ---------------------------------------------------------------------- *)
(* C11: the viewer's userVote tracks the signed-in identity                *)
(* ---------------------------------------------------------------------- *)
\* the vote the auth listener should have left in userVote for viewer v
RecordOfSession(v) ==
  IF user[v] = Null THEN Null ELSE userVotes[user[v]]

\* viewer v has no vote-record read outstanding, every handleVote call has
\* completed, and no other viewer has voted under the identity signed in at v
\* (so the record v's identity has is one v's own session read or wrote)
Settled(v) ==
  /\ authReads[v] = {}
  /\ \A c \in DOMAIN calls : calls[c].pc = "done"
  /\ user[v] # Null => \A c \in CallsOf(calls, user[v]) : calls[c].viewer = v

\* C11: whenever no vote-record read is in flight (every handleVote call
\* completed, the identity voting from this viewer only), userVote of a viewer
\* equals the vote stored in the record of the identity signed in there, and
\* is empty when that record does not exist or nobody is signed in
C11_VoteTracksIdentity ==
  \A v \in Viewers : Settled(v) => userVote[v] = RecordOfSession(v)

=============================================================================
